---- MODULE Spec2Model ----
(***************************************************************************)
(* WeFund backend: the wallet ledger and the project funding state machine. *)
(*                                                                         *)
(* The three collections (users, projects, transactions) live in MongoDB.  *)
(* Every handler is an async function: each awaited storage call is one    *)
(* atomic step, and any other request may run between two awaits.  A       *)
(* request is therefore a small process with a program counter (pc) and    *)
(* the handler's local variables (the documents it loaded).                *)
(***************************************************************************)
EXTENDS Integers, Sequences, FiniteSets, TLC

VARIABLES
    users,      \* users collection: id -> document
    projects,   \* projects collection: id -> document, or NoDoc
    txs,        \* transactions collection, in insertion (natural) order
    transfers,  \* momo_transfers collection: number of documents
    now,        \* datetime.utcnow() truncated to the second, as last read
    req,        \* the requests: handler, arguments, locals, pc, outcome
    adminOps    \* number of admin requests served so far

vars == <<users, projects, txs, transfers, now, req, adminOps>>

----------------------------------------------------------------------------
(* Bounds of the model *)

MaxRequests == 2
MaxAdminOps == 1
MaxClock == 1
MaxWithdrawals == 3

(* Program constants *)

MomoMinDeposit == 100
MomoMinWithdraw == 500

----------------------------------------------------------------------------
(* Domains the inputs are drawn from *)

Users == {"u1", "u2"}
ProjectIds == {"p1", "p2"}
Amounts == {0, 500, 1000}
FundingGoals == {1000}
\* every project is created with a positive minInvestment
MinInvestments == {500}
ReviewStatuses == {"approved", "rejected", "open"}
Requests == 1..MaxRequests

NoDoc == [none |-> TRUE]
NoProject == "-"
NoRef == [kind |-> "-", ts |-> 0]
\* reference of the deposit that awaits manual confirmation
LegacyRef == [kind |-> "WFD", ts |-> -1]
Refs == {LegacyRef} \cup {[kind |-> "WFD", ts |-> t] : t \in 0..MaxClock}

----------------------------------------------------------------------------
(* Helpers *)

RECURSIVE SumAmounts(_)
SumAmounts(s) == IF s = <<>> THEN 0 ELSE s[1].amount + SumAmounts(Tail(s))

\* find_one / update_one address the first document, in natural order,
\* that matches the filter
First(S) == IF S = {} THEN 0 ELSE CHOOSE i \in S : \A j \in S : i <= j

Exists(p) == projects[p] # NoDoc

\* datetime.utcnow() read at clock value t0 or later: the clock is only
\* observed where a transaction reference is generated, so it advances there
Clock(t0) == t0..MaxClock

NewTx(u, amt, type, status, p, ref) ==
    [userId |-> u, amount |-> amt, type |-> type, status |-> status,
     projectId |-> p, ref |-> ref, confirmed |-> FALSE]

IdleReq ==
    [op |-> "-", user |-> "-", project |-> NoProject, amount |-> 0,
     ref |-> NoRef, pc |-> "idle", result |-> "-",
     proj |-> NoDoc, tx |-> NoDoc]

\* the handler returns or raises: its locals are gone
Finish(r, res) ==
    req' = [req EXCEPT ![r].pc = "done", ![r].result = res,
                       ![r].proj = NoDoc, ![r].tx = NoDoc]
Goto(r, label) == req' = [req EXCEPT ![r].pc = label]

----------------------------------------------------------------------------
(* Initial state: two registered members with funded wallets (each funded  *)
(* by one completed deposit), u1 verified and u2 not; one verified open    *)
(* project without investors; one mobile-money deposit of u1 that is still *)
(* pending.  process_deposit_to_personal_momo writes its momo_deposit as   *)
(* completed, so the pending one that manual_confirm_deposit is there to   *)
(* confirm is a document of the collection not written by these handlers.  *)

InitUser(bal, ver) ==
    [walletBalance |-> bal, totalInvested |-> 0, verified |-> ver, blocked |-> FALSE]

NewProject(goal, min) ==
    [fundingGoal |-> goal, fundedAmount |-> 0, minInvestment |-> min,
     status |-> "pending", verified |-> FALSE, blocked |-> FALSE,
     investors |-> <<>>]

InitUsers ==
    [u \in Users |-> IF u = "u1" THEN InitUser(1000, TRUE) ELSE InitUser(500, FALSE)]

InitTxs ==
    << NewTx("u1", 1000, "deposit", "completed", NoProject, NoRef),
       NewTx("u2", 500, "deposit", "completed", NoProject, NoRef),
       NewTx("u1", 500, "momo_deposit", "pending", NoProject, LegacyRef) >>

InitProjects ==
    [p \in ProjectIds |->
       IF p = "p1"
       THEN [NewProject(1000, 500) EXCEPT !.status = "open", !.verified = TRUE]
       ELSE NoDoc]

InitStore ==
    /\ users = InitUsers
    /\ txs = InitTxs
    /\ projects = InitProjects
    /\ transfers = 0
    /\ now = 0
    /\ adminOps = 0

Init == InitStore /\ req = [r \in Requests |-> IdleReq]

----------------------------------------------------------------------------
(* A request arrives.  utils/auth.py get_current_user loads the caller and *)
(* refuses a blocked account; then the handler runs up to its first await. *)

\* the requests are numbered in their order of arrival
CanStart(r) ==
    /\ req[r].pc = "idle"
    /\ r > 1 => req[r - 1].pc # "idle"

Begin(r, op, u, p, amt, ref, label) ==
    req' = [req EXCEPT ![r] =
              [IdleReq EXCEPT !.op = op, !.user = u, !.project = p, !.amount = amt,
                              !.ref = ref,
                              !.pc = IF users[u].blocked THEN "done" ELSE label,
                              !.result = IF users[u].blocked THEN "Blocked" ELSE "-"]]

----------------------------------------------------------------------------
(* routers/users.py deposit *)

deposit_start(r) ==
    /\ CanStart(r)
    /\ \E u \in Users, amt \in Amounts :
         IF users[u].blocked \/ amt > 0
         THEN Begin(r, "deposit", u, NoProject, amt, NoRef, "dep_inc")
         ELSE req' = [req EXCEPT ![r] =
                        [IdleReq EXCEPT !.op = "deposit", !.user = u, !.amount = amt,
                                        !.pc = "done", !.result = "InvalidAmount"]]
    /\ UNCHANGED <<users, projects, txs, transfers, now, adminOps>>

\* the update writes the amount with $set instead of incrementing
deposit_inc_wallet_SetAmount(r) ==
    /\ req[r].pc = "dep_inc"
    /\ users' = [users EXCEPT ![req[r].user].walletBalance = req[r].amount]
    /\ Goto(r, "dep_tx")
    /\ UNCHANGED <<projects, txs, transfers, now, adminOps>>

deposit_inc_wallet(r) ==
    /\ req[r].pc = "dep_inc"
    /\ users' = [users EXCEPT ![req[r].user].walletBalance = @ + req[r].amount]
    /\ Goto(r, "dep_tx")
    /\ UNCHANGED <<projects, txs, transfers, now, adminOps>>

\* the transaction is recorded as pending
deposit_insert_tx_Pending(r) ==
    /\ req[r].pc = "dep_tx"
    /\ txs' = Append(txs, NewTx(req[r].user, req[r].amount, "deposit", "pending",
                                NoProject, NoRef))
    /\ Finish(r, "ok")
    /\ UNCHANGED <<users, projects, transfers, now, adminOps>>

deposit_insert_tx(r) ==
    /\ req[r].pc = "dep_tx"
    /\ txs' = Append(txs, NewTx(req[r].user, req[r].amount, "deposit", "completed",
                                NoProject, NoRef))
    /\ Finish(r, "ok")
    /\ UNCHANGED <<users, projects, transfers, now, adminOps>>

----------------------------------------------------------------------------
(* routers/users.py withdraw *)

withdraw_start(r) ==
    /\ CanStart(r)
    /\ \E u \in Users, amt \in Amounts :
         IF users[u].blocked \/ amt > 0
         THEN Begin(r, "withdraw", u, NoProject, amt, NoRef, "wd_find_user")
         ELSE req' = [req EXCEPT ![r] =
                        [IdleReq EXCEPT !.op = "withdraw", !.user = u, !.amount = amt,
                                        !.pc = "done", !.result = "InvalidAmount"]]
    /\ UNCHANGED <<users, projects, txs, transfers, now, adminOps>>

withdraw_find_user(r) ==
    /\ req[r].pc = "wd_find_user"
    /\ IF users[req[r].user].walletBalance < req[r].amount
       THEN Finish(r, "InsufficientFunds")
       ELSE Goto(r, "wd_debit")
    /\ UNCHANGED <<users, projects, txs, transfers, now, adminOps>>

withdraw_debit_wallet(r) ==
    /\ req[r].pc = "wd_debit"
    /\ users' = [users EXCEPT ![req[r].user].walletBalance = @ - req[r].amount]
    /\ Goto(r, "wd_tx")
    /\ UNCHANGED <<projects, txs, transfers, now, adminOps>>

\* the transaction is inserted twice
withdraw_insert_tx_Twice(r) ==
    /\ req[r].pc = "wd_tx"
    /\ LET t == NewTx(req[r].user, req[r].amount, "withdraw", "completed",
                      NoProject, NoRef)
       IN txs' = Append(Append(txs, t), t)
    /\ Finish(r, "ok")
    /\ UNCHANGED <<users, projects, transfers, now, adminOps>>

withdraw_insert_tx(r) ==
    /\ req[r].pc = "wd_tx"
    /\ txs' = Append(txs, NewTx(req[r].user, req[r].amount, "withdraw", "completed",
                                NoProject, NoRef))
    /\ Finish(r, "ok")
    /\ UNCHANGED <<users, projects, transfers, now, adminOps>>

----------------------------------------------------------------------------
(* routers/projects.py invest_in_project *)

invest_start(r) ==
    /\ CanStart(r)
    /\ \E u \in Users, p \in ProjectIds, amt \in Amounts :
         Begin(r, "invest", u, p, amt, NoRef, "inv_find_project")
    /\ UNCHANGED <<users, projects, txs, transfers, now, adminOps>>

invest_find_project(r) ==
    /\ req[r].pc = "inv_find_project"
    /\ LET project == projects[req[r].project] IN
         IF project = NoDoc THEN Finish(r, "NotFound")
         ELSE IF project.status # "open" THEN Finish(r, "ProjectNotOpen")
         ELSE IF req[r].amount < project.minInvestment THEN Finish(r, "BelowMinimum")
         ELSE req' = [req EXCEPT ![r].proj = project, ![r].pc = "inv_find_user"]
    /\ UNCHANGED <<users, projects, txs, transfers, now, adminOps>>

\* the wallet is debited in the same step as the balance check, also when
\* the check rejects the request
invest_find_user_DebitFirst(r) ==
    /\ req[r].pc = "inv_find_user"
    /\ users' = [users EXCEPT
                   ![req[r].user].walletBalance = @ - req[r].amount,
                   ![req[r].user].totalInvested = @ + req[r].amount]
    /\ IF users[req[r].user].walletBalance < req[r].amount
       THEN Finish(r, "InsufficientFunds")
       ELSE Goto(r, "inv_debit")
    /\ UNCHANGED <<projects, txs, transfers, now, adminOps>>

invest_find_user(r) ==
    /\ req[r].pc = "inv_find_user"
    /\ IF users[req[r].user].walletBalance < req[r].amount
       THEN Finish(r, "InsufficientFunds")
       ELSE Goto(r, "inv_debit")
    /\ UNCHANGED <<users, projects, txs, transfers, now, adminOps>>

\* the update debits the wallet and forgets totalInvested
invest_debit_user_WalletOnly(r) ==
    /\ req[r].pc = "inv_debit"
    /\ users' = [users EXCEPT ![req[r].user].walletBalance = @ - req[r].amount]
    /\ Goto(r, "inv_credit")
    /\ UNCHANGED <<projects, txs, transfers, now, adminOps>>

invest_debit_user(r) ==
    /\ req[r].pc = "inv_debit"
    /\ users' = [users EXCEPT
                   ![req[r].user].walletBalance = @ - req[r].amount,
                   ![req[r].user].totalInvested = @ + req[r].amount]
    /\ Goto(r, "inv_credit")
    /\ UNCHANGED <<projects, txs, transfers, now, adminOps>>

\* the update forgets the $push of the investors entry
invest_credit_project_NoPush(r) ==
    /\ req[r].pc = "inv_credit"
    /\ LET p == req[r].project
           new_funded == req[r].proj.fundedAmount + req[r].amount
           new_status == IF new_funded >= req[r].proj.fundingGoal THEN "closed" ELSE "open"
       IN projects' =
            IF Exists(p)
            THEN [projects EXCEPT
                    ![p].fundedAmount = @ + req[r].amount,
                    ![p].status = new_status]
            ELSE projects
    /\ Goto(r, "inv_tx")
    /\ UNCHANGED <<users, txs, transfers, now, adminOps>>

\* the update writes new_funded with $set instead of incrementing
invest_credit_project_SetFunded(r) ==
    /\ req[r].pc = "inv_credit"
    /\ LET p == req[r].project
           new_funded == req[r].proj.fundedAmount + req[r].amount
           new_status == IF new_funded >= req[r].proj.fundingGoal THEN "closed" ELSE "open"
       IN projects' =
            IF Exists(p)
            THEN [projects EXCEPT
                    ![p].fundedAmount = new_funded,
                    ![p].status = new_status,
                    ![p].investors = Append(@, [userId |-> req[r].user,
                                                amount |-> req[r].amount])]
            ELSE projects
    /\ Goto(r, "inv_tx")
    /\ UNCHANGED <<users, txs, transfers, now, adminOps>>

\* the credited amount is clamped to what is left up to the funding goal
invest_credit_project_Clamped(r) ==
    /\ req[r].pc = "inv_credit"
    /\ LET p == req[r].project
           left == req[r].proj.fundingGoal - req[r].proj.fundedAmount
           credited == IF req[r].amount <= left THEN req[r].amount
                       ELSE IF left > 0 THEN left ELSE 0
           new_funded == req[r].proj.fundedAmount + credited
           new_status == IF new_funded >= req[r].proj.fundingGoal THEN "closed" ELSE "open"
       IN projects' =
            IF Exists(p)
            THEN [projects EXCEPT
                    ![p].fundedAmount = @ + credited,
                    ![p].status = new_status,
                    ![p].investors = Append(@, [userId |-> req[r].user,
                                                amount |-> credited])]
            ELSE projects
    /\ Goto(r, "inv_tx")
    /\ UNCHANGED <<users, txs, transfers, now, adminOps>>

\* new_funded and new_status come from the document loaded at the start;
\* update_one changes nothing when the project no longer exists
invest_credit_project(r) ==
    /\ req[r].pc = "inv_credit"
    /\ LET p == req[r].project
           new_funded == req[r].proj.fundedAmount + req[r].amount
           new_status == IF new_funded >= req[r].proj.fundingGoal THEN "closed" ELSE "open"
       IN projects' =
            IF Exists(p)
            THEN [projects EXCEPT
                    ![p].fundedAmount = @ + req[r].amount,
                    ![p].status = new_status,
                    ![p].investors = Append(@, [userId |-> req[r].user,
                                                amount |-> req[r].amount])]
            ELSE projects
    /\ Goto(r, "inv_tx")
    /\ UNCHANGED <<users, txs, transfers, now, adminOps>>

invest_insert_tx(r) ==
    /\ req[r].pc = "inv_tx"
    /\ txs' = Append(txs, NewTx(req[r].user, req[r].amount, "investment", "completed",
                                req[r].project, NoRef))
    /\ Finish(r, "ok")
    /\ UNCHANGED <<users, projects, transfers, now, adminOps>>

----------------------------------------------------------------------------
(* routers/mobile_money.py mobile_money_deposit and                        *)
(* PersonalMoMoService.process_deposit_to_personal_momo                    *)

momo_deposit_start(r) ==
    /\ CanStart(r)
    /\ \E u \in Users, amt \in Amounts :
         Begin(r, "momo_deposit", u, NoProject, amt, NoRef, "md_find_user")
    /\ UNCHANGED <<users, projects, txs, transfers, now, adminOps>>

momo_deposit_find_user(r) ==
    /\ req[r].pc = "md_find_user"
    /\ IF req[r].amount <= 0 THEN Finish(r, "InvalidAmount") /\ UNCHANGED now
       ELSE IF req[r].amount < MomoMinDeposit
       THEN Finish(r, "BelowMinimum") /\ UNCHANGED now
       ELSE \E t \in Clock(now) :
              /\ now' = t
              /\ req' = [req EXCEPT ![r].ref = [kind |-> "WFD", ts |-> t],
                                    ![r].pc = "md_transfer"]
    /\ UNCHANGED <<users, projects, txs, transfers, adminOps>>

momo_deposit_insert_transfer(r) ==
    /\ req[r].pc = "md_transfer"
    /\ transfers' = transfers + 1
    /\ Goto(r, "md_inc")
    /\ UNCHANGED <<users, projects, txs, now, adminOps>>

momo_deposit_inc_wallet(r) ==
    /\ req[r].pc = "md_inc"
    /\ users' = [users EXCEPT ![req[r].user].walletBalance = @ + req[r].amount]
    /\ Goto(r, "md_tx")
    /\ UNCHANGED <<projects, txs, transfers, now, adminOps>>

\* the transaction is recorded as pending although the wallet was credited
momo_deposit_insert_tx_Pending(r) ==
    /\ req[r].pc = "md_tx"
    /\ txs' = Append(txs, NewTx(req[r].user, req[r].amount, "momo_deposit", "pending",
                                NoProject, req[r].ref))
    /\ Finish(r, "ok")
    /\ UNCHANGED <<users, projects, transfers, now, adminOps>>

momo_deposit_insert_tx(r) ==
    /\ req[r].pc = "md_tx"
    /\ txs' = Append(txs, NewTx(req[r].user, req[r].amount, "momo_deposit", "completed",
                                NoProject, req[r].ref))
    /\ Finish(r, "ok")
    /\ UNCHANGED <<users, projects, transfers, now, adminOps>>

----------------------------------------------------------------------------
(* routers/mobile_money.py mobile_money_withdraw *)

momo_withdraw_start(r) ==
    /\ CanStart(r)
    /\ \E u \in Users, amt \in Amounts :
         Begin(r, "momo_withdraw", u, NoProject, amt, NoRef, "mw_find_user")
    /\ UNCHANGED <<users, projects, txs, transfers, now, adminOps>>

momo_withdraw_find_user(r) ==
    /\ req[r].pc = "mw_find_user"
    /\ IF users[req[r].user].walletBalance < req[r].amount
       THEN Finish(r, "InsufficientFunds") /\ UNCHANGED now
       ELSE IF req[r].amount <= 0 THEN Finish(r, "InvalidAmount") /\ UNCHANGED now
       ELSE IF req[r].amount < MomoMinWithdraw
       THEN Finish(r, "BelowMinimum") /\ UNCHANGED now
       ELSE \E t \in Clock(now) :
              /\ now' = t
              /\ req' = [req EXCEPT ![r].ref = [kind |-> "WFW", ts |-> t],
                                    ![r].pc = "mw_tx"]
    /\ UNCHANGED <<users, projects, txs, transfers, adminOps>>

momo_withdraw_insert_tx(r) ==
    /\ req[r].pc = "mw_tx"
    /\ txs' = Append(txs, NewTx(req[r].user, req[r].amount, "mobile_withdrawal", "pending",
                                NoProject, req[r].ref))
    /\ Goto(r, "mw_debit")
    /\ UNCHANGED <<users, projects, transfers, now, adminOps>>

momo_withdraw_debit_wallet(r) ==
    /\ req[r].pc = "mw_debit"
    /\ users' = [users EXCEPT ![req[r].user].walletBalance = @ - req[r].amount]
    /\ Finish(r, "ok")
    /\ UNCHANGED <<projects, txs, transfers, now, adminOps>>

----------------------------------------------------------------------------
(* routers/admin_enhanced.py manual_confirm_deposit (the caller is an      *)
(* admin, who is not one of the members above)                             *)

FindDepositByRef(ref) ==
    First({i \in 1..Len(txs) : txs[i].ref = ref /\ txs[i].type = "momo_deposit"})
FindByRef(ref) == First({i \in 1..Len(txs) : txs[i].ref = ref})

manual_confirm_start(r) ==
    /\ CanStart(r)
    /\ \E ref \in Refs :
         req' = [req EXCEPT ![r] =
                   [IdleReq EXCEPT !.op = "confirm", !.ref = ref, !.pc = "cf_find_tx"]]
    /\ UNCHANGED <<users, projects, txs, transfers, now, adminOps>>

\* the handler does not look at the status of the transaction it found
manual_confirm_find_tx_NoStatusCheck(r) ==
    /\ req[r].pc = "cf_find_tx"
    /\ LET i == FindDepositByRef(req[r].ref) IN
         IF i = 0 THEN Finish(r, "NotFound")
         ELSE req' = [req EXCEPT ![r].tx = txs[i], ![r].pc = "cf_update_tx"]
    /\ UNCHANGED <<users, projects, txs, transfers, now, adminOps>>

manual_confirm_find_tx(r) ==
    /\ req[r].pc = "cf_find_tx"
    /\ LET i == FindDepositByRef(req[r].ref) IN
         IF i = 0 THEN Finish(r, "NotFound")
         ELSE IF txs[i].status = "completed" THEN Finish(r, "AlreadyCompleted")
         ELSE req' = [req EXCEPT ![r].tx = txs[i], ![r].pc = "cf_update_tx"]
    /\ UNCHANGED <<users, projects, txs, transfers, now, adminOps>>

\* the update flips the status: a completed transaction goes back to pending
manual_confirm_update_tx_Toggle(r) ==
    /\ req[r].pc = "cf_update_tx"
    /\ LET i == FindByRef(req[r].ref) IN
         txs' = IF i = 0 THEN txs
                ELSE [txs EXCEPT
                        ![i].status = IF @ = "completed" THEN "pending" ELSE "completed",
                        ![i].confirmed = TRUE]
    /\ Goto(r, "cf_credit")
    /\ UNCHANGED <<users, projects, transfers, now, adminOps>>

manual_confirm_update_tx(r) ==
    /\ req[r].pc = "cf_update_tx"
    /\ LET i == FindByRef(req[r].ref) IN
         txs' = IF i = 0 THEN txs
                ELSE [txs EXCEPT ![i].status = "completed", ![i].confirmed = TRUE]
    /\ Goto(r, "cf_credit")
    /\ UNCHANGED <<users, projects, transfers, now, adminOps>>

\* the credit is recorded as a deposit transaction of its own
manual_confirm_credit_wallet_NewTx(r) ==
    /\ req[r].pc = "cf_credit"
    /\ users' = [users EXCEPT ![req[r].tx.userId].walletBalance = @ + req[r].tx.amount]
    /\ txs' = Append(txs, NewTx(req[r].tx.userId, req[r].tx.amount, "deposit",
                                "completed", NoProject, NoRef))
    /\ Finish(r, "ok")
    /\ UNCHANGED <<projects, transfers, now, adminOps>>

manual_confirm_credit_wallet(r) ==
    /\ req[r].pc = "cf_credit"
    /\ users' = [users EXCEPT ![req[r].tx.userId].walletBalance = @ + req[r].tx.amount]
    /\ Finish(r, "ok")
    /\ UNCHANGED <<projects, txs, transfers, now, adminOps>>

----------------------------------------------------------------------------
(* A request dies between two storage calls (the call raises, the worker   *)
(* is killed, the client's timeout cancels the task).  No handler has a    *)
(* rollback: what it wrote so far stays.                                   *)

InFlight(r) == req[r].pc \notin {"idle", "done"}

\* the positions that follow a write of the same request; a request that
\* dies earlier leaves the collections as if it had never arrived
AfterWrite ==
    {"dep_tx", "wd_tx", "inv_credit", "inv_tx", "md_inc", "md_tx", "mw_debit",
     "cf_credit"}

Abort(r) ==
    /\ req[r].pc \in AfterWrite
    /\ Finish(r, "Aborted")
    /\ UNCHANGED <<users, projects, txs, transfers, now, adminOps>>

----------------------------------------------------------------------------
(* routers/admin.py and routers/admin_enhanced.py: each admin handler      *)
(* makes one write.  A request whose write changes nothing is left out.    *)

AdminBudget == adminOps < MaxAdminOps

create_project ==
    /\ AdminBudget
    /\ \E p \in ProjectIds, goal \in FundingGoals, min \in MinInvestments :
         /\ ~Exists(p)
         /\ p = "p2" => Exists("p1")
         /\ projects' = [projects EXCEPT ![p] = NewProject(goal, min)]
    /\ adminOps' = adminOps + 1
    /\ UNCHANGED <<users, txs, transfers, now, req>>

verify_project ==
    /\ AdminBudget
    /\ \E p \in ProjectIds :
         /\ Exists(p)
         /\ projects' = [projects EXCEPT ![p].verified = TRUE, ![p].status = "open"]
         /\ projects' # projects
    /\ adminOps' = adminOps + 1
    /\ UNCHANGED <<users, txs, transfers, now, req>>

block_project ==
    /\ AdminBudget
    /\ \E p \in ProjectIds, b \in BOOLEAN :
         /\ Exists(p)
         /\ projects' = [projects EXCEPT ![p].blocked = b]
         /\ projects' # projects
    /\ adminOps' = adminOps + 1
    /\ UNCHANGED <<users, txs, transfers, now, req>>

delete_project ==
    /\ AdminBudget
    /\ \E p \in ProjectIds :
         /\ Exists(p)
         /\ projects' = [projects EXCEPT ![p] = NoDoc]
    /\ adminOps' = adminOps + 1
    /\ UNCHANGED <<users, txs, transfers, now, req>>

\* a rejection also resets the funding of the project
review_project_ResetFunding ==
    /\ AdminBudget
    /\ \E p \in ProjectIds, st \in ReviewStatuses :
         /\ Exists(p)
         /\ projects' = [projects EXCEPT
                           ![p].status = st,
                           ![p].verified = (st = "approved"),
                           ![p].fundedAmount = IF st = "rejected" THEN 0 ELSE @,
                           ![p].investors = IF st = "rejected" THEN <<>> ELSE @]
         /\ projects' # projects
    /\ adminOps' = adminOps + 1
    /\ UNCHANGED <<users, txs, transfers, now, req>>

review_project ==
    /\ AdminBudget
    /\ \E p \in ProjectIds, st \in ReviewStatuses :
         /\ Exists(p)
         /\ projects' = [projects EXCEPT ![p].status = st,
                                         ![p].verified = (st = "approved")]
         /\ projects' # projects
    /\ adminOps' = adminOps + 1
    /\ UNCHANGED <<users, txs, transfers, now, req>>

verify_user ==
    /\ AdminBudget
    /\ \E u \in Users :
         /\ users' = [users EXCEPT ![u].verified = TRUE]
         /\ users' # users
    /\ adminOps' = adminOps + 1
    /\ UNCHANGED <<projects, txs, transfers, now, req>>

block_user ==
    /\ AdminBudget
    /\ \E u \in Users, b \in BOOLEAN :
         /\ users' = [users EXCEPT ![u].blocked = b]
         /\ users' # users
    /\ adminOps' = adminOps + 1
    /\ UNCHANGED <<projects, txs, transfers, now, req>>

----------------------------------------------------------------------------

Deposit(r) == deposit_start(r) \/ deposit_inc_wallet(r) \/ deposit_insert_tx(r)

Withdraw(r) ==
    \/ withdraw_start(r) \/ withdraw_find_user(r)
    \/ withdraw_debit_wallet(r) \/ withdraw_insert_tx(r)

Invest(r) ==
    \/ invest_start(r) \/ invest_find_project(r) \/ invest_find_user(r)
    \/ invest_debit_user(r) \/ invest_credit_project(r) \/ invest_insert_tx(r)

MomoDeposit(r) ==
    \/ momo_deposit_start(r) \/ momo_deposit_find_user(r)
    \/ momo_deposit_insert_transfer(r) \/ momo_deposit_inc_wallet(r)
    \/ momo_deposit_insert_tx(r)

MomoWithdraw(r) ==
    \/ momo_withdraw_start(r) \/ momo_withdraw_find_user(r)
    \/ momo_withdraw_insert_tx(r) \/ momo_withdraw_debit_wallet(r)

ConfirmPendingDeposit(r) ==
    \/ manual_confirm_start(r) \/ manual_confirm_find_tx(r)
    \/ manual_confirm_update_tx(r) \/ manual_confirm_credit_wallet(r)

ProjectAdmin ==
    \/ create_project \/ verify_project \/ block_project \/ delete_project
    \/ review_project

UserAdmin == verify_user \/ block_user

Admin == ProjectAdmin \/ UserAdmin

Next ==
    \/ \E r \in Requests :
         \/ Deposit(r) \/ Withdraw(r) \/ Invest(r)
         \/ MomoDeposit(r) \/ MomoWithdraw(r) \/ ConfirmPendingDeposit(r)
         \/ Abort(r)
    \/ Admin

Spec == Init /\ [][Next]_vars

Arrive(r) ==
    \/ deposit_start(r) \/ withdraw_start(r) \/ invest_start(r)
    \/ momo_deposit_start(r) \/ momo_withdraw_start(r) \/ manual_confirm_start(r)

Step(r) ==
    \/ deposit_inc_wallet(r) \/ deposit_insert_tx(r)
    \/ withdraw_find_user(r) \/ withdraw_debit_wallet(r) \/ withdraw_insert_tx(r)
    \/ invest_find_project(r) \/ invest_find_user(r) \/ invest_debit_user(r)
    \/ invest_credit_project(r) \/ invest_insert_tx(r)
    \/ momo_deposit_find_user(r) \/ momo_deposit_insert_transfer(r)
    \/ momo_deposit_inc_wallet(r) \/ momo_deposit_insert_tx(r)
    \/ momo_withdraw_find_user(r) \/ momo_withdraw_insert_tx(r)
    \/ momo_withdraw_debit_wallet(r)
    \/ manual_confirm_find_tx(r) \/ manual_confirm_update_tx(r)
    \/ manual_confirm_credit_wallet(r)

Quiescent == \A r \in Requests : ~InFlight(r)

\* the financial requests served one at a time: a request arrives only when
\* no other request is in flight
SeqNext ==
    \/ Quiescent /\ \E r \in Requests : Arrive(r)
    \/ \E r \in Requests : Step(r) \/ Abort(r)

SpecSeq == Init /\ [][SeqNext]_vars

\* concurrent Invest calls only, each running to completion
InvestNext == \E r \in Requests : Invest(r)

SpecInvest == Init /\ [][InvestNext]_vars

\* the wallet routes (deposit, withdraw, mobile-money withdraw) and Invest,
\* served concurrently, each call running to completion
WalletNext ==
    \E r \in Requests : Deposit(r) \/ Withdraw(r) \/ Invest(r) \/ MomoWithdraw(r)

SpecWallet == Init /\ [][WalletNext]_vars

\* mobile-money deposits and manual confirmations, served one at a time,
\* each call running to completion
MomoSeqNext ==
    \/ Quiescent /\ \E r \in Requests : momo_deposit_start(r) \/ manual_confirm_start(r)
    \/ \E r \in Requests :
         \/ momo_deposit_find_user(r) \/ momo_deposit_insert_transfer(r)
         \/ momo_deposit_inc_wallet(r) \/ momo_deposit_insert_tx(r)
         \/ manual_confirm_find_tx(r) \/ manual_confirm_update_tx(r)
         \/ manual_confirm_credit_wallet(r)

SpecMomoSeq == Init /\ [][MomoSeqNext]_vars

\* up to MaxWithdrawals concurrent withdrawals (wallet or mobile-money)
WithdrawalRequests == 1..MaxWithdrawals

InitWithdrawals == InitStore /\ req = [r \in WithdrawalRequests |-> IdleReq]

WithdrawalsNext == \E r \in WithdrawalRequests : Withdraw(r) \/ MomoWithdraw(r)

SpecWithdrawals == InitWithdrawals /\ [][WithdrawalsNext]_vars

----------------------------------------------------------------------------
(* Quantities the properties speak about *)

\* amounts of p's investors entries made by u
InvestorSum(p, u) ==
    SumAmounts(SelectSeq(projects[p].investors, LAMBDA e : e.userId = u))

\* amounts of u's completed investment transactions
InvestmentTxSum(u) ==
    SumAmounts(SelectSeq(txs, LAMBDA t :
        t.userId = u /\ t.type = "investment" /\ t.status = "completed"))

\* amounts of u's completed investment transactions on project p
InvestmentTxSumOn(u, p) ==
    SumAmounts(SelectSeq(txs, LAMBDA t :
        /\ t.userId = u /\ t.projectId = p
        /\ t.type = "investment" /\ t.status = "completed"))

InvestsOn(p) == {r \in Requests : req[r].op = "invest" /\ req[r].project = p}

InvestRejections == {"NotFound", "ProjectNotOpen", "BelowMinimum", "InsufficientFunds"}

InvestTx(r) ==
    NewTx(req[r].user, req[r].amount, "investment", "completed", req[r].project, NoRef)

----------------------------------------------------------------------------
(* C1: in every reachable state every account's walletBalance is >= 0.     *)
C1_WalletNonNegative == \A u \in Users : users[u].walletBalance >= 0

----------------------------------------------------------------------------
(* C2: in every reachable state, in-flight Invest requests included, every *)
(* project's fundedAmount equals the sum of the amounts of its investors   *)
(* entries.                                                                *)
C2_FundedEqualsInvestors ==
    \A p \in ProjectIds :
        Exists(p) => projects[p].fundedAmount = SumAmounts(projects[p].investors)

\* two investments are on a project while an Invest request is between its steps
C2_Witness ==
    \E p \in ProjectIds :
        /\ Exists(p)
        /\ Len(projects[p].investors) = 2
        /\ \E r \in Requests : req[r].op = "invest" /\ InFlight(r)

----------------------------------------------------------------------------
(* C3: every successful Invest(u, p, amt) decreases u's walletBalance by   *)
(* exactly amt, increases p's fundedAmount by exactly amt and creates      *)
(* exactly one completed investment transaction of amount amt for u and p. *)
(* A successful Invest makes each of its three writes once, so this is     *)
(* stated write by write.                                                  *)
C3_InvestConservation ==
    [][\A r \in Requests :
         LET u == req[r].user
             p == req[r].project
             amt == req[r].amount
         IN /\ (req[r].pc = "inv_debit" /\ req'[r].pc = "inv_credit") =>
                 users'[u].walletBalance = users[u].walletBalance - amt
            /\ (req[r].pc = "inv_credit" /\ req'[r].pc = "inv_tx") =>
                 /\ Exists(p)
                 /\ projects'[p] # NoDoc
                 /\ projects'[p].fundedAmount = projects[p].fundedAmount + amt
            /\ (req[r].pc = "inv_tx" /\ req'[r].result = "ok") =>
                 txs' = Append(txs, InvestTx(r))
      ]_vars

----------------------------------------------------------------------------
(* C4: two ConfirmPendingDeposit calls in sequence on the same reference:  *)
(* when the first succeeds the second fails with AlreadyCompleted; a       *)
(* successful call credits the wallet of the transaction's user with       *)
(* exactly its amount and a failing call credits nothing, so the amount is *)
(* credited exactly once.  Checked where requests are served one at a time.*)
C4_ConfirmTwice ==
    /\ [](\A r1, r2 \in Requests :
            ( /\ r1 < r2
              /\ req[r1].op = "confirm" /\ req[r2].op = "confirm"
              /\ req[r1].ref = req[r2].ref
              /\ req[r1].result = "ok" /\ req[r2].pc = "done" )
            => req[r2].result = "AlreadyCompleted")
    /\ [][\A r \in Requests :
            /\ (req[r].pc = "cf_credit" /\ req'[r].result = "ok") =>
                 users' = [users EXCEPT ![req[r].tx.userId].walletBalance =
                                           @ + req[r].tx.amount]
            /\ (req[r].pc = "cf_find_tx" /\ req'[r].pc = "done") =>
                 UNCHANGED <<users, txs>>
       ]_vars

\* the pending deposit of 500 was confirmed twice: first ok, then
\* AlreadyCompleted, and u1's wallet went from 1000 to 1500
C4_Witness ==
    /\ \E r1, r2 \in Requests :
         /\ r1 < r2
         /\ req[r1].op = "confirm" /\ req[r2].op = "confirm"
         /\ req[r1].ref = LegacyRef /\ req[r2].ref = LegacyRef
         /\ req[r1].result = "ok" /\ req[r2].result = "AlreadyCompleted"
    /\ users["u1"].walletBalance = 1500

----------------------------------------------------------------------------
(* C5: concurrent Invest calls on the same open project, all of one amount *)
(* amt, each by a user whose balance check passes, where only the last one *)
(* can reach the funding goal: all succeed and, once all have finished,    *)
(* fundedAmount is the initial 0 plus amt for every call.                  *)
C5_ConcurrentInvests ==
    \A amt \in Amounts :
        LET I == InvestsOn("p1") IN
        ( /\ I # {}
          /\ \A r \in Requests : req[r].pc = "done" /\ (r \in I => req[r].amount = amt)
          /\ amt >= projects["p1"].minInvestment
          /\ (Cardinality(I) - 1) * amt < projects["p1"].fundingGoal
          /\ \A r \in I : req[r].result # "InsufficientFunds" )
        => /\ \A r \in I : req[r].result = "ok"
           /\ projects["p1"].fundedAmount = Cardinality(I) * amt

\* every request was an Invest of 500 on p1, all done, and together they
\* reached the goal of 1000
C5_Witness ==
    /\ \A r \in Requests :
         /\ req[r].op = "invest" /\ req[r].project = "p1" /\ req[r].amount = 500
         /\ req[r].result = "ok"
    /\ projects["p1"].fundedAmount >= projects["p1"].fundingGoal

----------------------------------------------------------------------------
(* C6: Withdraw (wallet or mobile-money) checks amount <= walletBalance    *)
(* and decrements atomically: the decrement is applied only if the balance *)
(* still covers the amount at that instant.                                *)
C6_WithdrawChecksAtDebit ==
    [][\A r \in Requests :
         ( /\ req[r].pc \in {"wd_debit", "mw_debit"}
           /\ users'[req[r].user].walletBalance # users[req[r].user].walletBalance )
         => users[req[r].user].walletBalance >= req[r].amount
      ]_vars

----------------------------------------------------------------------------
(* C7: Invest is all-or-nothing.  Whenever no request is in flight, what   *)
(* was debited from each user for investments (totalInvested moves with    *)
(* the wallet debit) is what the investment transactions record, and what  *)
(* each existing project was credited by each user is what the investment  *)
(* transactions on it record.                                              *)
C7_InvestAllOrNothing ==
    Quiescent =>
        /\ \A u \in Users : users[u].totalInvested = InvestmentTxSum(u)
        /\ \A p \in ProjectIds, u \in Users :
               Exists(p) => InvestorSum(p, u) = InvestmentTxSumOn(u, p)

----------------------------------------------------------------------------
(* C8: whenever no Invest on an opened project is in flight, its status is *)
(* closed/funded exactly when fundedAmount >= fundingGoal and open exactly *)
(* when fundedAmount < fundingGoal.                                        *)
C8_StatusFollowsFunding ==
    \A p \in ProjectIds :
        (Exists(p) /\ \A r \in InvestsOn(p) : ~InFlight(r)) =>
            /\ projects[p].status \in {"closed", "funded"}
                 <=> projects[p].fundedAmount >= projects[p].fundingGoal
            /\ projects[p].status = "open"
                 <=> projects[p].fundedAmount < projects[p].fundingGoal

----------------------------------------------------------------------------
(* C9: Invest fails with ProjectNotOpen unless the loaded project is open  *)
(* and not blocked: every Invest that went past the project checks loaded  *)
(* an open project whose blocked flag was false.                           *)
C9_InvestRequiresOpenUnblocked ==
    \A r \in Requests :
        (req[r].op = "invest" /\ req[r].proj # NoDoc) =>
            req[r].proj.status = "open" /\ ~req[r].proj.blocked

----------------------------------------------------------------------------
(* C10: an Invest rejected with NotFound, ProjectNotOpen, BelowMinimum or  *)
(* InsufficientFunds changes no user, no project and no transaction: it is *)
(* rejected at one of its two reads, and no step of an Invest up to and    *)
(* including those reads writes anything.                                  *)
C10_RejectedInvestWritesNothing ==
    [][\A r \in Requests :
         (req'[r].op = "invest" /\ req'[r] # req[r]) =>
            /\ (req[r].result = "-" /\ req'[r].result \in InvestRejections) =>
                 req[r].pc \in {"inv_find_project", "inv_find_user"}
            /\ req[r].pc \in {"idle", "inv_find_project", "inv_find_user"} =>
                 UNCHANGED <<users, projects, txs>>
      ]_vars

\* one Invest was rejected for insufficient funds and another at the
\* project checks, and the collections are as they were initially
C10_Witness ==
    /\ \E r1, r2 \in Requests :
         /\ req[r1].op = "invest" /\ req[r1].result = "InsufficientFunds"
         /\ req[r2].op = "invest"
         /\ req[r2].result \in {"NotFound", "ProjectNotOpen", "BelowMinimum"}
    /\ users["u1"].walletBalance = 1000 /\ users["u2"].walletBalance = 500
    /\ \A u \in Users : users[u].totalInvested = 0
    /\ projects["p1"].fundedAmount = 0 /\ projects["p1"].investors = <<>>
    /\ Len(txs) = 3

----------------------------------------------------------------------------
(* C11: a Withdraw (wallet or mobile-money) with amount <= 0 fails with    *)
(* InvalidAmount, and one with amount greater than the walletBalance read  *)
(* by its check fails with InsufficientFunds; in both cases no user and no *)
(* transaction changes.  Stated at the step where the request leaves its   *)
(* checks.                                                                 *)
C11_WithdrawRejections ==
    [][\A r \in DOMAIN req :
         ( /\ req'[r].op \in {"withdraw", "momo_withdraw"}
           /\ req[r].pc \in {"idle", "wd_find_user", "mw_find_user"}
           /\ req'[r].pc \notin {"idle", "wd_find_user", "mw_find_user"} )
         => LET amt == req'[r].amount
                bal == users[req'[r].user].walletBalance
            IN /\ amt <= 0 =>
                    /\ req'[r].result = "InvalidAmount"
                    /\ UNCHANGED <<users, txs>>
               /\ (amt > 0 /\ amt > bal) =>
                    /\ req'[r].result = "InsufficientFunds"
                    /\ UNCHANGED <<users, txs>>
      ]_vars

----------------------------------------------------------------------------
(* C12: no financial operation partially commits and then reports failure. *)
(* Taken on the first request served, with no other request and no admin   *)
(* write around it: when it has ended with an error, the users, projects  *)
(* and transactions are what they were before the call; and when it has    *)
(* ended having written or completed a transaction, a wallet has changed.  *)
C12_NoPartialCommit ==
    ( /\ adminOps = 0
      /\ req[1].pc = "done"
      /\ \A r \in Requests \ {1} : req[r].pc = "idle" )
    => /\ req[1].result # "ok" =>
            users = InitUsers /\ projects = InitProjects /\ txs = InitTxs
       /\ txs # InitTxs => users # InitUsers

----------------------------------------------------------------------------
(* C13: no lost update on an account.  Once a set of concurrent Deposit,   *)
(* Withdraw (wallet or mobile-money) and Invest calls has completed, every *)
(* user's walletBalance is the initial balance plus the amounts of that    *)
(* user's successful deposits minus the amounts of that user's successful  *)
(* withdrawals and investments.                                            *)
WalletEffect(r) ==
    IF req[r].result # "ok" THEN 0
    ELSE IF req[r].op = "deposit" THEN req[r].amount
    ELSE IF req[r].op \in {"withdraw", "momo_withdraw", "invest"} THEN 0 - req[r].amount
    ELSE 0

RECURSIVE NetEffect(_, _)
NetEffect(u, R) ==
    IF R = {} THEN 0
    ELSE LET r == CHOOSE x \in R : TRUE
         IN (IF req[r].user = u THEN WalletEffect(r) ELSE 0) + NetEffect(u, R \ {r})

C13_NoLostUpdate ==
    (\A r \in Requests : req[r].pc = "done") =>
        \A u \in Users :
            users[u].walletBalance = InitUsers[u].walletBalance + NetEffect(u, Requests)

\* a Withdraw and an Invest of 1000 each, both by u1 and both successful:
\* they overlapped (u1 only had 1000) and both debits are in the balance
C13_Witness ==
    /\ \A r \in Requests : req[r].pc = "done" /\ req[r].result = "ok" /\ req[r].user = "u1"
    /\ \E r1, r2 \in Requests :
         /\ req[r1].op = "withdraw" /\ req[r1].amount = 1000
         /\ req[r2].op = "invest" /\ req[r2].amount = 1000
    /\ users["u1"].walletBalance = InitUsers["u1"].walletBalance - 2000

----------------------------------------------------------------------------
(* C14: Deposit(u, amount) with amount > 0 always succeeds: it increases   *)
(* u's walletBalance by exactly amount, then appends a transaction of type *)
(* deposit, status completed and that amount, and returns ok.  Deposit     *)
(* with amount <= 0 is rejected with InvalidAmount and changes nothing.    *)
C14_Deposit ==
    /\ [](\A r \in Requests :
            (req[r].op = "deposit" /\ req[r].pc = "done") =>
                req[r].result = IF req[r].amount > 0 THEN "ok" ELSE "InvalidAmount")
    /\ [][\A r \in Requests :
            (req'[r].op = "deposit" /\ req'[r] # req[r]) =>
                LET u == req'[r].user
                    amt == req'[r].amount
                IN /\ req[r].pc = "idle" =>
                        /\ UNCHANGED <<users, projects, txs>>
                        /\ req'[r].pc = IF amt > 0 THEN "dep_inc" ELSE "done"
                   /\ req[r].pc = "dep_inc" =>
                        /\ users' = [users EXCEPT ![u].walletBalance = @ + amt]
                        /\ UNCHANGED <<projects, txs>>
                        /\ req'[r].pc = "dep_tx"
                   /\ req[r].pc = "dep_tx" =>
                        /\ txs' = Append(txs, NewTx(u, amt, "deposit", "completed",
                                                    NoProject, NoRef))
                        /\ UNCHANGED <<users, projects>>
                        /\ req'[r].result = "ok"
       ]_vars

\* Deposit(u2, 500) succeeded (balance 500 -> 1000, one more transaction)
\* and a Deposit of 0 was rejected
C14_Witness ==
    /\ \E r1, r2 \in Requests :
         /\ req[r1].op = "deposit" /\ req[r1].user = "u2" /\ req[r1].amount = 500
         /\ req[r1].result = "ok"
         /\ req[r2].op = "deposit" /\ req[r2].amount = 0
         /\ req[r2].result = "InvalidAmount"
    /\ users["u2"].walletBalance = InitUsers["u2"].walletBalance + 500
    /\ users["u1"] = InitUsers["u1"]
    /\ txs = Append(InitTxs, NewTx("u2", 500, "deposit", "completed", NoProject, NoRef))

----------------------------------------------------------------------------
(* C15: every successful Wallet Service call (Deposit, Withdraw or the     *)
(* mobile-money withdraw) writes exactly one new transaction record and    *)
(* modifies no existing one: once the calls have completed there is one    *)
(* more wallet transaction per successful call, and no step of a call      *)
(* removes or changes a record that exists.                                *)
WalletOps == {"deposit", "withdraw", "momo_withdraw"}

WalletTxTypes == {"deposit", "withdraw", "mobile_withdrawal"}

WalletTxs(s) == SelectSeq(s, LAMBDA t : t.type \in WalletTxTypes)

C15_OneTransactionPerCall ==
    /\ []((\A r \in Requests : req[r].pc = "done") =>
            Len(WalletTxs(txs)) =
                Len(WalletTxs(InitTxs))
                + Cardinality({r \in Requests :
                                 req[r].op \in WalletOps /\ req[r].result = "ok"}))
    /\ [][/\ Len(txs') >= Len(txs)
          /\ \A i \in 1..Len(txs) : txs'[i] = txs[i]
       ]_vars

\* a Deposit and a mobile-money withdraw both succeeded and the collection
\* has exactly their two records after the initial ones
C15_Witness ==
    /\ \A r \in Requests : req[r].pc = "done" /\ req[r].result = "ok"
    /\ \E r1, r2 \in Requests :
         req[r1].op = "deposit" /\ req[r2].op = "momo_withdraw"
    /\ Len(txs) = Len(InitTxs) + 2
    /\ SubSeq(txs, 1, Len(InitTxs)) = InitTxs

----------------------------------------------------------------------------
----------------------------------------------------------------------------
(* C17: whenever no Invest is in flight, for every existing project p,     *)
(* every user u and every amount, there are as many completed investment   *)
(* transactions of u on p with that amount as investors entries of u on p  *)
(* with that amount, and what the investment transactions of u add up to   *)
(* was debited from u (totalInvested moves with the wallet debit, so it is *)
(* at least that sum).                                                     *)
InvestmentTxCount(u, p, amt) ==
    Len(SelectSeq(txs, LAMBDA t :
        /\ t.userId = u /\ t.projectId = p /\ t.amount = amt
        /\ t.type = "investment" /\ t.status = "completed"))

InvestorCount(p, u, amt) ==
    Len(SelectSeq(projects[p].investors, LAMBDA e : e.userId = u /\ e.amount = amt))

C17_TxMatchesInvestors ==
    (\A r \in Requests : req[r].op = "invest" => ~InFlight(r)) =>
        /\ \A p \in ProjectIds, u \in Users, amt \in Amounts :
               Exists(p) => InvestmentTxCount(u, p, amt) = InvestorCount(p, u, amt)
        /\ \A u \in Users : InvestmentTxSum(u) <= users[u].totalInvested

----------------------------------------------------------------------------
(* C18: an Invest succeeds only if the investing user is verified and not  *)
(* blocked; no Invest by an unverified or blocked user debits a wallet or  *)
(* credits a project.  Stated at the two writes: the user of an Invest     *)
(* that debits the wallet or credits the project is verified and not       *)
(* blocked at that moment.                                                 *)
C18_InvestRequiresEligibleUser ==
    [][\A r \in Requests :
         ( /\ req[r].op = "invest"
           /\ req[r].pc \in {"inv_debit", "inv_credit"}
           /\ req'[r].pc \in {"inv_credit", "inv_tx"}
           /\ req'[r].pc # req[r].pc )
         => users[req[r].user].verified /\ ~users[req[r].user].blocked
      ]_vars

----------------------------------------------------------------------------
(* C19: a single Invest(u, p, amt) on an open project (the requests are    *)
(* served one at a time) credits exactly amt, never clamped to what is     *)
(* left up to the goal; when fundedAmount + amt >= fundingGoal it leaves   *)
(* the project closed/funded, and when fundedAmount + amt < fundingGoal    *)
(* the status stays open.                                                  *)
C19_SingleInvestStatus ==
    [][\A r \in Requests :
         (req[r].op = "invest" /\ req[r].pc = "inv_credit" /\ req'[r].pc = "inv_tx")
         => LET p == req[r].project
                amt == req[r].amount
                funded == projects[p].fundedAmount
                goal == projects[p].fundingGoal
            IN /\ projects[p].status = "open"
               /\ projects'[p].fundedAmount = funded + amt
               /\ funded + amt >= goal => projects'[p].status \in {"closed", "funded"}
               /\ funded + amt < goal => projects'[p].status = "open"
      ]_vars

\* after Invest(u2, p1, 500) left p1 open, Invest(u1, p1, 1000) was taken
\* in full: fundedAmount 1500 exceeds the goal of 1000 and p1 is closed
C19_Witness ==
    /\ projects["p1"].investors =
         << [userId |-> "u2", amount |-> 500], [userId |-> "u1", amount |-> 1000] >>
    /\ projects["p1"].fundedAmount = 1500
    /\ projects["p1"].fundingGoal = 1000
    /\ projects["p1"].status = "closed"
    /\ \A r \in Requests : req[r].op = "invest" /\ req[r].result = "ok"

----------------------------------------------------------------------------
(* C20: the transaction ledger is append-only.  In every step the records  *)
(* that exist stay, in place, with the same userId, amount and type, and   *)
(* the status of a record either stays or moves from pending to completed. *)
C20_LedgerAppendOnly ==
    [][/\ Len(txs') >= Len(txs)
       /\ \A i \in 1..Len(txs) :
            /\ txs'[i].userId = txs[i].userId
            /\ txs'[i].amount = txs[i].amount
            /\ txs'[i].type = txs[i].type
            /\ \/ txs'[i].status = txs[i].status
               \/ txs[i].status = "pending" /\ txs'[i].status = "completed"
      ]_vars

\* the pending deposit was completed by a confirmation, and a record was
\* appended after it
C20_Witness ==
    /\ Len(txs) > Len(InitTxs)
    /\ \E i \in 1..Len(InitTxs) :
         /\ InitTxs[i].status = "pending"
         /\ txs[i].status = "completed" /\ txs[i].confirmed
         /\ txs[i].userId = InitTxs[i].userId /\ txs[i].amount = InitTxs[i].amount

----------------------------------------------------------------------------
----------------------------------------------------------------------------
(* C22: debit precedes credit.  In every reachable state, in the middle of *)
(* in-flight Invest requests included, for every user u the amounts of u's *)
(* entries in all projects' investors lists add up to at most u's          *)
(* totalInvested.                                                          *)
RECURSIVE InvestedIn(_, _)
InvestedIn(u, P) ==
    IF P = {} THEN 0
    ELSE LET p == CHOOSE x \in P : TRUE
         IN (IF Exists(p) THEN InvestorSum(p, u) ELSE 0) + InvestedIn(u, P \ {p})

----------------------------------------------------------------------------
(* C23: a project becomes open only through admin verification: every      *)
(* project in status open has verified = true, and every Invest that went  *)
(* past the project checks loaded a verified project.                      *)
C23_OpenOnlyWhenVerified ==
    /\ \A p \in ProjectIds :
         (Exists(p) /\ projects[p].status = "open") => projects[p].verified
    /\ \A r \in Requests :
         (req[r].op = "invest" /\ req[r].proj # NoDoc) => req[r].proj.verified

----------------------------------------------------------------------------
(* C24: totalInvested mirrors the transaction history: whenever no Invest  *)
(* by user u is in flight, u's totalInvested equals the sum of the amounts *)
(* of u's completed investment transactions; and totalInvested never       *)
(* decreases.                                                              *)
C24_TotalInvestedMirrorsHistory ==
    /\ [](\A u \in Users :
            (\A r \in Requests :
               (req[r].op = "invest" /\ req[r].user = u) => ~InFlight(r))
            => users[u].totalInvested = InvestmentTxSum(u))
    /\ [][\A u \in Users : users'[u].totalInvested >= users[u].totalInvested]_vars

----------------------------------------------------------------------------
(* C25: a successful ConfirmPendingDeposit changes only the transaction    *)
(* found for the reference (status completed, confirmation stamped) and    *)
(* the walletBalance of that transaction's user (plus exactly its amount): *)
(* its lookup writes nothing, its update touches that one record and       *)
(* creates none, its credit touches that one balance, and no other         *)
(* transaction, user or project changes in its steps.                      *)
C25_ConfirmFrame ==
    [][\A r \in Requests :
         (req[r].op = "confirm" /\ req'[r] # req[r]) =>
            /\ req[r].pc = "cf_find_tx" => UNCHANGED <<users, projects, txs>>
            /\ req[r].pc = "cf_update_tx" =>
                 LET i == FindDepositByRef(req[r].ref) IN
                   /\ i # 0
                   /\ txs[i].userId = req[r].tx.userId
                   /\ txs[i].amount = req[r].tx.amount
                   /\ txs' = [txs EXCEPT ![i].status = "completed",
                                         ![i].confirmed = TRUE]
                   /\ UNCHANGED <<users, projects>>
            /\ (req[r].pc = "cf_credit" /\ req'[r].result = "ok") =>
                 /\ users' = [users EXCEPT ![req[r].tx.userId].walletBalance =
                                              @ + req[r].tx.amount]
                 /\ UNCHANGED <<projects, txs>>
      ]_vars

\* the only request served confirmed the pending deposit of u1: that record
\* is completed and stamped, u1 has 500 more, and nothing else has changed
C25_Witness ==
    /\ req[1].op = "confirm" /\ req[1].result = "ok"
    /\ \A r \in Requests \ {1} : req[r].pc = "idle"
    /\ adminOps = 0
    /\ txs = [InitTxs EXCEPT ![3].status = "completed", ![3].confirmed = TRUE]
    /\ users = [InitUsers EXCEPT !["u1"].walletBalance = @ + InitTxs[3].amount]
    /\ projects = InitProjects

----------------------------------------------------------------------------
(* C26: referential consistency at write time.  No step of an Invest       *)
(* debits a wallet, credits a project or writes an investment transaction  *)
(* for a project that does not exist at the moment of the write, and the   *)
(* project of every investment transaction written received the matching   *)
(* credit: it holds an investors entry of that user and amount.            *)
C26_WritesNeedProject ==
    [][\A r \in Requests :
         ( /\ req[r].op = "invest"
           /\ req[r].pc \in {"inv_debit", "inv_credit", "inv_tx"}
           /\ req'[r].pc \notin {req[r].pc, "done"} \/ req'[r].result = "ok" )
         => /\ Exists(req[r].project)
            /\ req[r].pc = "inv_tx" =>
                 \E i \in 1..Len(projects[req[r].project].investors) :
                     projects[req[r].project].investors[i] =
                         [userId |-> req[r].user, amount |-> req[r].amount]
      ]_vars

----------------------------------------------------------------------------
(* C27: aggregate totals are consistent.  Whenever no request is in        *)
(* flight, all users' walletBalance plus all projects' fundedAmount add up *)
(* to the amounts of all credited (completed) deposit and momo_deposit     *)
(* transactions minus the amounts of all withdraw and mobile_withdrawal    *)
(* transactions.                                                           *)
RECURSIVE TotalBalance(_)
TotalBalance(U) ==
    IF U = {} THEN 0
    ELSE LET u == CHOOSE x \in U : TRUE
         IN users[u].walletBalance + TotalBalance(U \ {u})

RECURSIVE TotalFunded(_)
TotalFunded(P) ==
    IF P = {} THEN 0
    ELSE LET p == CHOOSE x \in P : TRUE
         IN (IF Exists(p) THEN projects[p].fundedAmount ELSE 0) + TotalFunded(P \ {p})

CreditedDeposits ==
    SumAmounts(SelectSeq(txs, LAMBDA t :
        t.type \in {"deposit", "momo_deposit"} /\ t.status = "completed"))

Withdrawals ==
    SumAmounts(SelectSeq(txs, LAMBDA t : t.type \in {"withdraw", "mobile_withdrawal"}))

C27_AggregateTotals ==
    Quiescent =>
        TotalBalance(Users) + TotalFunded(ProjectIds) = CreditedDeposits - Withdrawals

----------------------------------------------------------------------------
(* C28: closure is permanent.  Once a project's status is closed, no step  *)
(* of any operation sets it back to open, and no Invest that loads the     *)
(* project afterwards goes past the project checks.                        *)
C28_ClosurePermanent ==
    [][/\ \A p \in ProjectIds :
            (Exists(p) /\ projects[p].status = "closed" /\ projects'[p] # NoDoc)
            => projects'[p].status # "open"
       /\ \A r \in Requests :
            ( /\ req[r].pc = "inv_find_project"
              /\ Exists(req[r].project)
              /\ projects[req[r].project].status = "closed" )
            => req'[r].pc \in {"inv_find_project", "done"}
      ]_vars

----------------------------------------------------------------------------
(* C29: each mobile-money deposit is credited to the wallet exactly once   *)
(* over its whole lifetime, for every sequence of deposit initiations and  *)
(* ConfirmPendingDeposit calls: whenever no call is running, each user's   *)
(* walletBalance is the initial balance plus the amounts of that user's    *)
(* completed momo_deposit transactions (one credit per completed deposit,  *)
(* none yet for a pending one), and a confirmation only ever completes     *)
(* and credits a deposit that is still pending, so a deposit credited at   *)
(* its initiation is not credited again.                                   *)
CompletedMomoDeposits(u) ==
    SumAmounts(SelectSeq(txs, LAMBDA t :
        t.userId = u /\ t.type = "momo_deposit" /\ t.status = "completed"))

C29_MomoDepositCreditedOnce ==
    /\ [](Quiescent =>
            \A u \in Users :
                users[u].walletBalance =
                    InitUsers[u].walletBalance + CompletedMomoDeposits(u))
    /\ [][\A r \in Requests :
            (req[r].pc = "cf_update_tx" /\ req'[r].pc = "cf_credit") =>
                LET i == FindByRef(req[r].ref) IN
                  /\ i # 0
                  /\ txs[i].type = "momo_deposit"
                  /\ txs[i].status = "pending"
       ]_vars

\* a deposit of 500 by u2 was credited when it was initiated, and the
\* later confirmation of its reference was refused: u2 has 500 more, once
C29_Witness ==
    /\ req[1].op = "momo_deposit" /\ req[1].user = "u2" /\ req[1].amount = 500
    /\ req[1].result = "ok"
    /\ req[2].op = "confirm" /\ req[2].ref = req[1].ref
    /\ req[2].result = "AlreadyCompleted"
    /\ users["u2"].walletBalance = InitUsers["u2"].walletBalance + 500

----------------------------------------------------------------------------
(* C30: transaction references identify a single transaction: no two       *)
(* mobile-money transaction records (momo_deposit, mobile_withdrawal) ever *)
(* share a transaction_ref, also when two requests are handled within the  *)
(* same clock second.                                                      *)
C30_ReferencesUnique ==
    \A i, j \in 1..Len(txs) :
        ( /\ i # j
          /\ txs[i].type \in {"momo_deposit", "mobile_withdrawal"}
          /\ txs[j].type \in {"momo_deposit", "mobile_withdrawal"} )
        => txs[i].ref # txs[j].ref

====
